---- MODULE Spec2Model ----
(***************************************************************************)
(* Model of the xpyun-sdk request core: XpyunAuth (auth.py), the exception *)
(* hierarchy (exceptions.py) and XpyunClient._make_request (client.py).    *)
(*                                                                         *)
(* Python values are records [k, s, n] (kind, string payload, integer      *)
(* payload); dicts are functions from string keys to such values.  The     *)
(* clock is an integer number of milliseconds.  String literals of the     *)
(* source that are Chinese are written in English here; the comment next   *)
(* to each gives the source line.                                          *)
(***************************************************************************)
EXTENDS Integers, Sequences, FiniteSets, TLC

VARIABLES
    auth,       \* XpyunClient.auth: [user, user_key]          (client.py:30)
    debug,      \* XpyunClient.debug                           (client.py:31)
    clock,      \* the wall clock, in milliseconds
    calls,      \* number of _make_request calls made so far
    call,       \* the arguments and environment of the last call
    trace,      \* what the last call did: debug output and POSTs, in order
    outcome,    \* how the last call ended: a return value or an exception
    ctor,       \* the arguments XpyunClient(user, user_key, debug) was given
    authLog,    \* results of the caller's direct calls of XpyunAuth methods
    op,         \* the service operation the caller made last, with its arguments
    opRequests, \* the _make_request calls that operation made, in order
    opResult    \* how that operation ended

vars == <<auth, debug, clock, calls, call, trace, outcome, ctor, authLog, op,
          opRequests, opResult>>

----------------------------------------------------------------------------
(* Bounds of the model *)

MaxCalls == 2          \* operations the caller makes in one behaviour
MaxParamKeys == 1      \* keys in a caller-supplied params mapping
StartMs == 1500        \* the clock at construction
TickMs == 500          \* clock granularity
MaxAuthCalls == 2      \* direct calls of XpyunAuth methods the caller compares
MaxTasks == 2          \* tasks in one batch_print list

(* Program constants *)

MsPerSec == 1000       \* client.py:54  int(time.time() * 1000)
HttpErrorFrom == 400   \* response.raise_for_status(): 4xx and 5xx raise
MaxCopies == 10        \* print_service.py:47
MaxQuantity == 100     \* print_service.py:93
DefaultWidth == 30     \* print_service.py:66
DefaultHeight == 50    \* print_service.py:129
SleepMs == 1000        \* voice_service.py:179  time.sleep(1)
MsPerDay == 86400000   \* query_service.py:63  timedelta(days=...)

----------------------------------------------------------------------------
(* Python values *)

PNone == [k |-> "none", s |-> "", n |-> 0]
PStr(x) == [k |-> "str", s |-> x, n |-> 0]
PInt(i) == [k |-> "int", s |-> "", n |-> i]
PBool(b) == [k |-> "bool", s |-> "", n |-> IF b THEN 1 ELSE 0]
PObj == [k |-> "object", s |-> "", n |-> 0]    \* a value json cannot serialise
PDict(title) == [k |-> "dict", s |-> title, n |-> 0]   \* an order_data dict, by its title
PMap(d) == [k |-> "map", s |-> "", n |-> 0, d |-> d]   \* a dict, by its entries

\* bool(v)
Truth(v) ==
    CASE v.k = "none" -> FALSE
      [] v.k = "str" -> v.s # ""
      [] v.k \in {"int", "bool"} -> v.n # 0
      [] v.k = "map" -> DOMAIN v.d # {}
      [] OTHER -> TRUE

EmptyDict == [key \in {} |-> PNone]

\* dict.get(key, default)
Get(d, key, default) == IF key \in DOMAIN d THEN d[key] ELSE default

\* d.update(p): the entries of p replace those of d
DictUpdate(d, p) ==
    [key \in (DOMAIN d) \cup (DOMAIN p) |-> IF key \in DOMAIN p THEN p[key] ELSE d[key]]

\* Python's ==, on the kinds a JSON code field can have: bool and int compare
\* by number (False == 0), a str never equals a number
PyEq(a, b) ==
    IF a.k \in {"int", "bool"} /\ b.k \in {"int", "bool"} THEN a.n = b.n ELSE a = b

\* json.dumps succeeds on a dict iff none of its values is unserialisable
Serialisable(d) == \A key \in DOMAIN d : d[key].k # "object"

----------------------------------------------------------------------------
(* str(int) *)

Digit(d) == CASE d = 0 -> "0" [] d = 1 -> "1" [] d = 2 -> "2" [] d = 3 -> "3"
              [] d = 4 -> "4" [] d = 5 -> "5" [] d = 6 -> "6" [] d = 7 -> "7"
              [] d = 8 -> "8" [] d = 9 -> "9"

RECURSIVE IntToStr(_)
IntToStr(i) == IF i < 10 THEN Digit(i) ELSE IntToStr(i \div 10) \o Digit(i % 10)

----------------------------------------------------------------------------
(* auth.py *)

\* hashlib.sha1(s.encode('utf-8')).hexdigest().lower(): an ideal hash, a
\* digest that is determined by the hashed string and by nothing else
Sha1Hex(s) == "sha1(" \o s \o ")"

\* the key hashed before the user
generate_sign_KeyFirst(a, timestamp) == Sha1Hex(a.user_key \o a.user \o timestamp)

\* XpyunAuth.generate_sign(timestamp), timestamp given
generate_sign(a, timestamp) == Sha1Hex(a.user \o a.user_key \o timestamp)

\* XpyunAuth.generate_sign(timestamp=None) as called from outside: lines 40-41
\* read the clock only when no timestamp is given
generate_sign_at(a, timestamp, nowMs) ==
    generate_sign(a, IF timestamp = PNone THEN IntToStr(nowMs \div MsPerSec)
                     ELSE timestamp.s)

\* the signature computed once and reused for every timestamp
get_auth_params_CachedSign(a, nowMs) ==
    LET timestamp == IntToStr(nowMs \div MsPerSec)
    IN  [key \in {"user", "timestamp", "sign"} |->
            CASE key = "user" -> PStr(a.user)
              [] key = "timestamp" -> PStr(timestamp)
              [] key = "sign" -> PStr(generate_sign(a, "0"))]

\* the key itself sent in the sign field
get_auth_params_PlainKey(a, nowMs) ==
    LET timestamp == IntToStr(nowMs \div MsPerSec)
    IN  [key \in {"user", "timestamp", "sign"} |->
            CASE key = "user" -> PStr(a.user)
              [] key = "timestamp" -> PStr(timestamp)
              [] key = "sign" -> PStr(a.user_key)]

\* XpyunAuth.get_auth_params(), the clock read once, at nowMs
get_auth_params(a, nowMs) ==
    LET timestamp == IntToStr(nowMs \div MsPerSec)
        sign == generate_sign(a, timestamp)
    IN  [key \in {"user", "timestamp", "sign"} |->
            CASE key = "user" -> PStr(a.user)
              [] key = "timestamp" -> PStr(timestamp)
              [] key = "sign" -> PStr(sign)]

----------------------------------------------------------------------------
(* exceptions.py, and the library exceptions client.py names *)

\* The classes an exception of class cls is an instance of.  The SDK classes
\* are those of exceptions.py; the others are the requests / json / builtin
\* classes that the statements of _make_request can raise.
Bases(cls) ==
    CASE cls = "XpyunError" -> {"XpyunError", "Exception"}
      [] cls = "XpyunAuthError" -> {"XpyunAuthError", "XpyunError", "Exception"}
      [] cls = "XpyunAPIError" -> {"XpyunAPIError", "XpyunError", "Exception"}
      [] cls = "XpyunNetworkError" -> {"XpyunNetworkError", "XpyunError", "Exception"}
      [] cls = "ConnectionError" -> {"ConnectionError", "RequestException", "Exception"}
      [] cls = "Timeout" -> {"Timeout", "RequestException", "Exception"}
      [] cls = "SSLError" ->
            {"SSLError", "ConnectionError", "RequestException", "Exception"}
      [] cls = "HTTPError" -> {"HTTPError", "RequestException", "Exception"}
      \* requests >= 2.27: response.json() raises requests.exceptions.JSONDecodeError,
      \* a subclass of both InvalidJSONError (a RequestException) and json.JSONDecodeError
      [] cls = "requests.JSONDecodeError" ->
            {"requests.JSONDecodeError", "InvalidJSONError", "RequestException",
             "json.JSONDecodeError", "ValueError", "Exception"}
      \* requests < 2.27 without simplejson
      [] cls = "json.JSONDecodeError" -> {"json.JSONDecodeError", "ValueError", "Exception"}
      \* requests < 2.27 with simplejson installed
      [] cls = "simplejson.JSONDecodeError" ->
            {"simplejson.JSONDecodeError", "ValueError", "Exception"}
      [] cls = "TypeError" -> {"TypeError", "Exception"}
      [] cls = "AttributeError" -> {"AttributeError", "Exception"}
      [] OTHER -> {}

IsInstance(e, base) == base \in Bases(e.cls)

NoExc == [cls |-> "none", text |-> "", code |-> PNone, message |-> PNone, data |-> PNone]

\* an exception without attributes; text is the fixed part of its message
Exc(cls, text) == [cls |-> cls, text |-> text, code |-> PNone, message |-> PNone, data |-> PNone]

\* XpyunAPIError.__init__(code, message, data=None)
XpyunAPIError(code, message, data) ==
    [cls |-> "XpyunAPIError", text |-> "API error", code |-> code, message |-> message,
     data |-> data]

----------------------------------------------------------------------------
(* The transport: what session.post does with a request that reached it *)

ConnectionFailures == {"ConnectionError", "Timeout", "SSLError"}
JsonDecodeErrors == {"requests.JSONDecodeError", "json.JSONDecodeError", "simplejson.JSONDecodeError"}

\* a response body: a JSON object, another JSON value, or text that is no JSON
\* (json_raises is what response.json() raises on it in the installed build)
NoBody == [form |-> "none", obj |-> EmptyDict, json_raises |-> "none"]
ObjectBody(o) == [form |-> "object", obj |-> o, json_raises |-> "none"]
ArrayBody == [form |-> "array", obj |-> EmptyDict, json_raises |-> "none"]
TextBody(e) == [form |-> "nonjson", obj |-> EmptyDict, json_raises |-> e]

CodeValues == {PInt(0), PInt(3)}
MsgValues == {PStr("printer not found"), PStr(""), PNone}
DataValues == {PStr("X")}

\* the JSON objects over the keys of the response envelope, each key optional
FieldChoices(key, values) == {EmptyDict} \cup {[k \in {key} |-> v] : v \in values}

ResponseObjects ==
    {DictUpdate(DictUpdate(c, m), d) :
        c \in FieldChoices("code", CodeValues),
        m \in FieldChoices("msg", MsgValues),
        d \in FieldChoices("data", DataValues)}
    \cup {[k \in {"code"} |-> v] : v \in {PBool(FALSE), PStr("0")}}
    \cup {[k \in {"code", "message"} |->
              IF k = "code" THEN PInt(3) ELSE PStr("printer not found")]}

Bodies == {ObjectBody(o) : o \in ResponseObjects} \cup {ArrayBody}
          \cup {TextBody(e) : e \in JsonDecodeErrors}

\* bodies of the HTTP error responses the model draws
ErrorBodies ==
    {ObjectBody([k \in {"code", "msg"} |->
                    IF k = "code" THEN PInt(3) ELSE PStr("printer not found")]),
     ObjectBody([k \in {"code", "data"} |-> IF k = "code" THEN PInt(0) ELSE PStr("X")]),
     TextBody("requests.JSONDecodeError")}

Failure(e) == [kind |-> "raise", exc |-> e, status |-> 0, body |-> NoBody]
Response(status, body) == [kind |-> "response", exc |-> "none", status |-> status, body |-> body]
NoTransport == [kind |-> "none", exc |-> "none", status |-> 0, body |-> NoBody]

TransportOutcomes ==
    {Failure(e) : e \in ConnectionFailures}
    \cup {Response(200, b) : b \in Bodies}
    \cup {Response(500, b) : b \in ErrorBodies}

----------------------------------------------------------------------------
(* client.py: XpyunClient._make_request *)

BASE_URL == "https://open.xpyun.net/api/openapi/xprinter"

ReservedKeys == {"user", "timestamp", "sign", "requestTime"}

\* The params argument: None, a dict, or a value that is no mapping (an int n)
ParamsNone == [kind |-> "none", d |-> EmptyDict, n |-> 0]
ParamsDict(d) == [kind |-> "dict", d |-> d, n |-> 0]
ParamsInt(i) == [kind |-> "other", d |-> EmptyDict, n |-> i]

\* bool(params), the test of `if params:`
Truthy(params) ==
    CASE params.kind = "none" -> FALSE
      [] params.kind = "dict" -> DOMAIN params.d # {}
      [] OTHER -> params.n # 0

\* lines 53-54: the envelope the dispatcher generates; the clock is read at
\* authMs by get_auth_params and again at reqMs for requestTime
GeneratedEnvelope(a, authMs, reqMs) ==
    DictUpdate(get_auth_params(a, authMs), [k \in {"requestTime"} |-> PInt(reqMs)])

\* lines 56-57: `if params: request_data.update(params)`.  These lines are
\* outside the try: dict.update of a value that is not iterable raises
\* TypeError, which no except clause of _make_request sees
\* (params is the caller's object as the statement leaves it: update changes
\* request_data, not its argument)
MergeParams(request_data, params) ==
    IF ~Truthy(params) THEN [raised |-> NoExc, env |-> request_data, params |-> params]
    ELSE IF params.kind = "dict"
         THEN [raised |-> NoExc, env |-> DictUpdate(request_data, params.d),
               params |-> params]
         ELSE [raised |-> Exc("TypeError", "object is not iterable"), env |-> request_data,
               params |-> params]

\* events of a call, in the order they happen
PrintRequest(env) == [ev |-> "print_request", url |-> "", env |-> env, body |-> NoBody]
Post(url, env) == [ev |-> "post", url |-> url, env |-> env, body |-> NoBody]
PrintResponse(body) == [ev |-> "print_response", url |-> "", env |-> EmptyDict, body |-> body]

\* a dispatcher that retries: a POST that failed is sent a second time
SessionPost_Retry(url, env, tr) ==
    IF ~Serialisable(env)
    THEN [events |-> <<>>, raised |-> Exc("TypeError", "not JSON serializable")]
    ELSE IF tr.kind = "raise"
         THEN [events |-> <<Post(url, env), Post(url, env)>>, raised |-> Exc(tr.exc, "")]
         ELSE [events |-> <<Post(url, env)>>, raised |-> NoExc]

\* lines 64-68: session.post(url, json=request_data, timeout=TIMEOUT), once.
\* The request reaches the transport only if its body can be serialised.
SessionPost(url, env, tr) ==
    IF ~Serialisable(env)
    THEN [events |-> <<>>, raised |-> Exc("TypeError", "not JSON serializable")]
    ELSE [events |-> <<Post(url, env)>>,
          raised |-> IF tr.kind = "raise" THEN Exc(tr.exc, "") ELSE NoExc]

\* the message read from the key "message" instead of "msg"
ApiErrorOf_MessageKey(result) ==
    XpyunAPIError(Get(result, "code", PNone),
                  Get(result, "message", PStr("unknown error")),
                  Get(result, "data", PNone))

\* the message read without a default
ApiErrorOf_NoDefault(result) ==
    XpyunAPIError(Get(result, "code", PNone),
                  Get(result, "msg", PNone),
                  Get(result, "data", PNone))

\* lines 79-83: the exception raised for a result whose code is not 0
\* (line 81: the default message is the literal for "unknown error")
ApiErrorOf(result) ==
    XpyunAPIError(Get(result, "code", PNone),
                  Get(result, "msg", PStr("unknown error")),
                  Get(result, "data", PNone))

\* only the data field returned
ReturnOf_DataOnly(body) == ObjectBody([k \in {"data"} |-> Get(body.obj, "data", PNone)])

\* line 85: return result
ReturnOf(body) == body

\* the response printed only once its code has been found to be 0
HandleResponse_PrintOnSuccess(dbg, tr) ==
    IF tr.status >= HttpErrorFrom
    THEN [events |-> <<>>, raised |-> Exc("HTTPError", ""), result |-> NoBody]
    ELSE IF tr.body.form = "nonjson"
    THEN [events |-> <<>>, raised |-> Exc(tr.body.json_raises, ""), result |-> NoBody]
    ELSE IF tr.body.form # "object"
    THEN [events |-> <<>>, raised |-> Exc("AttributeError", "no attribute get"),
          result |-> NoBody]
    ELSE IF ~PyEq(Get(tr.body.obj, "code", PNone), PInt(0))
    THEN [events |-> <<>>, raised |-> ApiErrorOf(tr.body.obj), result |-> NoBody]
    ELSE [events |-> IF dbg THEN <<PrintResponse(tr.body)>> ELSE <<>>, raised |-> NoExc,
          result |-> ReturnOf(tr.body)]

\* lines 69-85, once session.post has returned a response
HandleResponse(dbg, tr) ==
    IF tr.status >= HttpErrorFrom                       \* line 69 raise_for_status
    THEN [events |-> <<>>, raised |-> Exc("HTTPError", ""), result |-> NoBody]
    ELSE IF tr.body.form = "nonjson"                    \* line 72 response.json()
    THEN [events |-> <<>>, raised |-> Exc(tr.body.json_raises, ""), result |-> NoBody]
    ELSE LET printed == IF dbg THEN <<PrintResponse(tr.body)>> ELSE <<>>   \* 74-75
         IN  IF tr.body.form # "object"                 \* line 78 result.get
             THEN [events |-> printed, raised |-> Exc("AttributeError", "no attribute get"),
                   result |-> NoBody]
             ELSE IF ~PyEq(Get(tr.body.obj, "code", PNone), PInt(0))       \* line 78
             THEN [events |-> printed, raised |-> ApiErrorOf(tr.body.obj), result |-> NoBody]
             ELSE [events |-> printed, raised |-> NoExc, result |-> ReturnOf(tr.body)]

\* lines 60-85: the body of the try statement
TryBody(dbg, url, env, tr) ==
    IF dbg /\ ~Serialisable(env)                        \* line 61 json.dumps
    THEN [events |-> <<>>, raised |-> Exc("TypeError", "not JSON serializable"),
          result |-> NoBody]
    ELSE LET printed == IF dbg THEN <<PrintRequest(env)>> ELSE <<>>
             posted == SessionPost(url, env, tr)
         IN  IF posted.raised # NoExc
             THEN [events |-> printed \o posted.events, raised |-> posted.raised,
                   result |-> NoBody]
             ELSE LET handled == HandleResponse(dbg, tr)
                  IN  [events |-> printed \o posted.events \o handled.events,
                       raised |-> handled.raised, result |-> handled.result]

\* the except clauses with `except Exception` tried first
ExceptChain_GenericFirst(e) ==
    IF IsInstance(e, "Exception") THEN Exc("XpyunError", "unknown error") ELSE e

\* an API error re-raised as XpyunAuthError
ExceptChain_AuthForApi(e) ==
    IF IsInstance(e, "RequestException")
    THEN Exc("XpyunNetworkError", "network request failed")
    ELSE IF IsInstance(e, "json.JSONDecodeError")
    THEN Exc("XpyunError", "response parse failed")
    ELSE IF IsInstance(e, "XpyunAPIError")
    THEN [e EXCEPT !.cls = "XpyunAuthError"]
    ELSE IF IsInstance(e, "Exception")
    THEN Exc("XpyunError", "unknown error")
    ELSE e

\* lines 87-94: the except clauses, tried in order; yields the exception that
\* leaves _make_request
ExceptChain(e) ==
    IF IsInstance(e, "RequestException")
    THEN Exc("XpyunNetworkError", "network request failed")        \* line 88
    ELSE IF IsInstance(e, "json.JSONDecodeError")
    THEN Exc("XpyunError", "response parse failed")                \* line 90
    ELSE IF IsInstance(e, "XpyunAPIError") THEN e                  \* line 92
    ELSE IF IsInstance(e, "Exception")
    THEN Exc("XpyunError", "unknown error")                        \* line 94
    ELSE e

NoOutcome == [kind |-> "none", exc |-> NoExc, result |-> NoBody]
Returned(body) == [kind |-> "return", exc |-> NoExc, result |-> body]
Raised(e) == [kind |-> "raise", exc |-> e, result |-> NoBody]

\* _make_request(method, params) as a whole: the events and the outcome
make_request(a, dbg, method, params, authMs, reqMs, tr) ==
    LET generated == GeneratedEnvelope(a, authMs, reqMs)
        merged == MergeParams(generated, params)
    IN  IF merged.raised # NoExc
        THEN [events |-> <<>>, outcome |-> Raised(merged.raised),
              params_after |-> merged.params]
        ELSE LET body == TryBody(dbg, BASE_URL \o "/" \o method, merged.env, tr)
             IN  [events |-> body.events,
                  outcome |-> IF body.raised = NoExc THEN Returned(body.result)
                              ELSE Raised(ExceptChain(body.raised)),
                  params_after |-> merged.params]

----------------------------------------------------------------------------
(* client.py: the request methods the print service uses *)

\* what a service keeps of one _make_request call it made; task is the
\* position of the batch task it was made for (0: not in a batch)
Request(method, params, run) ==
    [method |-> method, params |-> params, events |-> run.events,
     outcome |-> run.outcome, task |-> 0]

\* a service call: the requests it made, how it ended, and the entries of
\* the list it returned (batch_print only)
ServiceRun(requests, ended) ==
    [requests |-> requests, outcome |-> ended, entries |-> <<>>]

\* a call that made the request run and ends as that request ended
Sent(method, params, run) == ServiceRun(<<Request(method, params, run)>>, run.outcome)

\* `return self._make_request(method, params)`
OneRequest(c, method, params, tr) ==
    Sent(method, params,
         make_request(c.auth, c.debug, method, ParamsDict(params), c.now, c.now, tr))

\* the optional entry code_u: set only `if code_u:`
CodeU(code_u) == IF Truth(code_u) THEN [k \in {"code_u"} |-> code_u] ELSE EmptyDict

\* XpyunClient.print_ticket(sn, content, times, code_u, mode, voice)
print_ticket(c, sn, content, times, code_u, mode, voice, tr) ==
    OneRequest(c, "print",
        DictUpdate([k \in {"sn", "content", "times", "mode", "voice"} |->
                       CASE k = "sn" -> sn [] k = "content" -> content
                         [] k = "times" -> times [] k = "mode" -> mode
                         [] k = "voice" -> voice],
                   CodeU(code_u)),
        tr)

\* XpyunClient.print_label(sn, content, height, quantity, width, top, left, code_u)
client_print_label(c, sn, content, height, quantity, width, top, left, code_u, tr) ==
    OneRequest(c, "printLabel",
        DictUpdate([k \in {"sn", "content", "height", "quantity", "width", "top", "left"} |->
                       CASE k = "sn" -> sn [] k = "content" -> content
                         [] k = "height" -> height [] k = "quantity" -> quantity
                         [] k = "width" -> width [] k = "top" -> top
                         [] k = "left" -> left],
                   CodeU(code_u)),
        tr)

----------------------------------------------------------------------------
(* print_service.py: PrintService *)

\* Python's binding of keyword arguments to a signature: an unknown keyword
\* or a missing required parameter is a TypeError; defaults fill the rest
Bind(args, required, defaults) ==
    IF ~(DOMAIN args \subseteq required \cup DOMAIN defaults)
    THEN [raised |-> Exc("TypeError", "unexpected keyword argument"), args |-> args]
    ELSE IF ~(required \subseteq DOMAIN args)
    THEN [raised |-> Exc("TypeError", "missing required argument"), args |-> args]
    ELSE [raised |-> NoExc, args |-> DictUpdate(defaults, args)]

Fails(e) == ServiceRun(<<>>, Raised(e))

ReceiptDefaults ==
    [k \in {"copies", "code_u", "auto_print", "voice_enabled"} |->
        CASE k = "copies" -> PInt(1) [] k = "code_u" -> PStr("")
          [] k = "auto_print" -> PBool(TRUE) [] k = "voice_enabled" -> PBool(FALSE)]

LabelDefaults ==
    [k \in {"width", "quantity", "top_margin", "left_margin", "code_u"} |->
        CASE k = "width" -> PInt(DefaultWidth) [] k = "quantity" -> PInt(1)
          [] k = "top_margin" -> PInt(0) [] k = "left_margin" -> PInt(0)
          [] k = "code_u" -> PStr("")]

\* the copies check with its lower limit at 0
ReceiptInvalid_CopiesFromZero(a) ==
    IF ~Truth(a["sn"]) \/ ~Truth(a["content"])
    THEN Exc("XpyunError", "sn and content must not be empty")
    ELSE IF a["copies"].n < 0 \/ a["copies"].n > MaxCopies
    THEN Exc("XpyunError", "copies must be between 1 and 10")
    ELSE NoExc

\* lines 44-48: the argument checks of print_receipt
ReceiptInvalid(a) ==
    IF ~Truth(a["sn"]) \/ ~Truth(a["content"])
    THEN Exc("XpyunError", "sn and content must not be empty")             \* line 45
    ELSE IF a["copies"].n < 1 \/ a["copies"].n > MaxCopies
    THEN Exc("XpyunError", "copies must be between 1 and 10")              \* line 48
    ELSE NoExc

\* PrintService.print_receipt(**args)
print_receipt(c, args, tr) ==
    LET bound == Bind(args, {"sn", "content"}, ReceiptDefaults)
        a == bound.args
    IN  IF bound.raised # NoExc THEN Fails(bound.raised)
        ELSE IF ReceiptInvalid(a) # NoExc THEN Fails(ReceiptInvalid(a))
        ELSE print_ticket(c, a["sn"], a["content"], a["copies"], a["code_u"],
                          PInt(IF Truth(a["auto_print"]) THEN 0 ELSE 1),   \* line 50
                          PInt(IF Truth(a["voice_enabled"]) THEN 1 ELSE 0), \* line 51
                          tr)

\* lines 87-94: the argument checks of print_label
LabelInvalid(a) ==
    IF ~Truth(a["sn"]) \/ ~Truth(a["content"])
    THEN Exc("XpyunError", "sn and content must not be empty")             \* line 88
    ELSE IF a["height"].n <= 0 \/ a["width"].n <= 0
    THEN Exc("XpyunError", "height and width must be positive")            \* line 91
    ELSE IF a["quantity"].n < 1 \/ a["quantity"].n > MaxQuantity
    THEN Exc("XpyunError", "quantity must be between 1 and 100")           \* line 94
    ELSE NoExc

\* PrintService.print_label(**args)
print_label(c, args, tr) ==
    LET bound == Bind(args, {"sn", "content", "height"}, LabelDefaults)
        a == bound.args
    IN  IF bound.raised # NoExc THEN Fails(bound.raised)
        ELSE IF LabelInvalid(a) # NoExc THEN Fails(LabelInvalid(a))
        ELSE client_print_label(c, a["sn"], a["content"], a["height"], a["quantity"],
                                a["width"], a["top_margin"], a["left_margin"],
                                a["code_u"], tr)

\* _format_receipt_content / _format_label_content: the text built from an
\* order_data dict, which is never empty (it starts with the title line); a
\* value without .get raises AttributeError
FormatReceipt(order_data) == PStr("**" \o order_data.s \o "** receipt")
FormatLabel(order_data) == PStr("**" \o order_data.s \o "** label")

Without(d, keys) == [k \in DOMAIN d \ keys |-> d[k]]

\* PrintService.print_order(sn, order_data, order_type="receipt", **kwargs)
print_order(c, args, tr) ==
    IF ~({"sn", "order_data"} \subseteq DOMAIN args)
    THEN Fails(Exc("TypeError", "missing required argument"))
    ELSE LET order_type == Get(args, "order_type", PStr("receipt"))
             kwargs == Without(args, {"sn", "order_data", "order_type"})
             positional(content) ==
                 [k \in {"sn", "content"} |-> IF k = "sn" THEN args["sn"] ELSE content]
         IN  IF order_type \notin {PStr("receipt"), PStr("label")}
             THEN Fails(Exc("XpyunError", "unsupported order type"))       \* line 132
             ELSE IF args["order_data"].k # "dict"
             THEN Fails(Exc("AttributeError", "no attribute get"))
             ELSE IF {"sn", "content"} \cap DOMAIN kwargs # {}
             THEN Fails(Exc("TypeError", "multiple values for argument"))
             ELSE IF order_type = PStr("receipt")
             THEN print_receipt(c,                                          \* 125-126
                      DictUpdate(positional(FormatReceipt(args["order_data"])), kwargs), tr)
             ELSE print_label(c,                                            \* 128-130
                      DictUpdate(
                          DictUpdate(positional(FormatLabel(args["order_data"])),
                                     [k \in {"height"} |->
                                         Get(kwargs, "height", PInt(DefaultHeight))]),
                          Without(kwargs, {"height"})),
                      tr)

\* lines 148-156: the branch batch_print takes for one task
DispatchTask(c, task, tr) ==
    IF task.kind # "dict"
    THEN Fails(Exc("TypeError", "argument is not iterable"))     \* 'content' in task
    ELSE IF "content" \in DOMAIN task.d THEN print_receipt(c, task.d, tr)
    ELSE IF "order_data" \in DOMAIN task.d THEN print_order(c, task.d, tr)
    ELSE print_label(c, task.d, tr)

\* lines 158-168: the entry appended for one task; str(e) is the error text
TaskEntry(task, run) ==
    IF run.outcome.kind = "return"
    THEN [success |-> TRUE, data |-> run.outcome.result, error |-> "", task |-> task]
    ELSE [success |-> FALSE, data |-> NoBody, error |-> run.outcome.exc.text, task |-> task]

\* an except clause for the SDK's own errors only
BatchCatches_OnlySdk(e) == IsInstance(e, "XpyunError")

\* does the except clause of batch_print (line 163, `except Exception`) catch e
BatchCatches(e) == IsInstance(e, "Exception")

\* a position of the batch at which no request was made
NoRequest == [method |-> "", params |-> EmptyDict, events |-> <<>>,
              outcome |-> NoOutcome, task |-> 0]

\* lines 145-170: the loop of batch_print over the tasks, runs[i] being what
\* the branch taken for task i did. Yields the requests made, the list
\* returned, or the exception that ended the loop early. (Each branch of
\* lines 148-156 makes at most one client call, so a task has at most one
\* request.)
BatchLoop(tasks, runs) ==
    LET escapes(i) == runs[i].outcome.kind = "raise" /\ ~BatchCatches(runs[i].outcome.exc)
        \* the tasks the loop reaches: all up to the first escaping exception
        reached == {i \in DOMAIN runs : \A j \in 1..(i - 1) : ~escapes(j)}
        completed == {i \in reached : ~escapes(i)}
        slots == [i \in DOMAIN runs |->
                    IF i \in reached /\ runs[i].requests # <<>>
                    THEN [runs[i].requests[1] EXCEPT !.task = i]
                    ELSE NoRequest]
    IN  [requests |-> SelectSeq(slots, LAMBDA r : r # NoRequest),
         outcome |-> IF reached = completed THEN Returned(NoBody)
                     ELSE Raised(runs[CHOOSE i \in reached : escapes(i)].outcome.exc),
         entries |-> IF reached = completed
                     THEN [i \in DOMAIN runs |-> TaskEntry(tasks[i], runs[i])]
                     ELSE <<>>]

\* PrintService.batch_print(print_tasks): task i uses transport outcome trs[i]
batch_print(c, tasks, trs) ==
    BatchLoop(tasks, [i \in 1..Len(tasks) |-> DispatchTask(c, tasks[i], trs[i])])

----------------------------------------------------------------------------
(* str.upper() *)

LowerLetters ==
    <<"a", "b", "c", "d", "e", "f", "g", "h", "i", "j", "k", "l", "m", "n", "o", "p", "q", "r", "s", "t", "u", "v", "w", "x", "y", "z">>
UpperLetters ==
    <<"A", "B", "C", "D", "E", "F", "G", "H", "I", "J", "K", "L", "M", "N", "O", "P", "Q", "R", "S", "T", "U", "V", "W", "X", "Y", "Z">>

\* one character, upper-cased
UpperChar(ch) ==
    IF \E i \in DOMAIN LowerLetters : LowerLetters[i] = ch
    THEN UpperLetters[CHOOSE i \in DOMAIN LowerLetters : LowerLetters[i] = ch]
    ELSE ch

RECURSIVE Join(_)
Join(chars) == IF chars = <<>> THEN "" ELSE Head(chars) \o Join(Tail(chars))

\* the strings the model upper-cases, by their characters
Spellings ==
    {<<"E", "N", "G", "L", "I", "S", "H", "_", "M", "A", "L", "E">>,
     <<"e", "n", "g", "l", "i", "s", "h", "_", "m", "a", "l", "e">>,
     <<"E", "n", "g", "l", "i", "s", "h", "_", "M", "a", "l", "e">>,
     <<"m", "a", "n", "d", "a", "r", "i", "n", "_", "f", "e", "m", "a", "l", "e">>,
     <<"r", "o", "b", "o", "t">>,
     <<>>,
     <<"C", "A", "S", "H">>,
     <<"c", "a", "s", "h">>,
     <<"w", "e", "c", "h", "a", "t">>}

\* the characters of s
Chars(s) == CHOOSE chars \in Spellings : Join(chars) = s

\* a conversion that leaves the string as given
Upper_AsGiven(s) == s

\* s.upper()
Upper(s) == Join([i \in DOMAIN Chars(s) |-> UpperChar(Chars(s)[i])])

----------------------------------------------------------------------------
(* client.py: the request methods the voice service uses *)

\* an optional request parameter: set only `if value is not None`
Optional(key, value) == IF value = PNone THEN EmptyDict ELSE [k \in {key} |-> value]

\* XpyunClient.set_voice_type(sn, voice_type, voice=None)
client_set_voice_type(c, sn, voice_type, voice, tr) ==
    OneRequest(c, "setVoiceType",
        DictUpdate([k \in {"sn", "voiceType"} |-> IF k = "sn" THEN sn ELSE voice_type],
                   Optional("voice", voice)),
        tr)

\* XpyunClient.play_voice(sn, voice_type, pay_type=None)
client_play_voice(c, sn, voice_type, pay_type, tr) ==
    OneRequest(c, "playVoice",
        DictUpdate([k \in {"sn", "voiceType"} |-> IF k = "sn" THEN sn ELSE voice_type],
                   Optional("payType", pay_type)),
        tr)

----------------------------------------------------------------------------
(* voice_service.py: VoiceService *)

VOICE_TYPES ==
    ("MANDARIN_FEMALE" :> 0) @@ ("MANDARIN_MALE" :> 1) @@ ("CANTONESE_FEMALE" :> 2)
    @@ ("ENGLISH_FEMALE" :> 3) @@ ("CANTONESE_MALE" :> 4) @@ ("ENGLISH_MALE" :> 5)

PAY_TYPES == ("CASH" :> 1) @@ ("CARD" :> 2) @@ ("QR_CODE" :> 3) @@ ("OTHER" :> 0)

\* lines 58-63, 84-89: a name is looked up upper-cased in the table (None when
\* it is not there); any other value is taken as it is
Lookup(table, value) ==
    IF value.k # "str" THEN value
    ELSE IF Upper(value.s) \in DOMAIN table THEN PInt(table[Upper(value.s)])
    ELSE PNone

\* VoiceService.set_voice_type(sn, voice_type, voice_enabled=True)
set_voice_type(c, sn, voice_type, voice_enabled, tr) ==
    IF ~Truth(sn)
    THEN Fails(Exc("XpyunError", "printer sn must not be empty"))          \* line 55
    ELSE IF voice_type.k = "str" /\ Lookup(VOICE_TYPES, voice_type) = PNone
    THEN Fails(Exc("XpyunError", "unsupported voice type"))                \* line 61
    ELSE client_set_voice_type(c, sn, Lookup(VOICE_TYPES, voice_type),
                               PInt(IF Truth(voice_enabled) THEN 1 ELSE 0), tr)

\* VoiceService.play_voice(sn, voice_type, pay_type=None)
play_voice(c, sn, voice_type, pay_type, tr) ==
    IF ~Truth(sn) \/ ~Truth(voice_type)
    THEN Fails(Exc("XpyunError", "printer sn and voice type must not be empty"))  \* line 80
    ELSE IF pay_type.k = "str" /\ Lookup(PAY_TYPES, pay_type) = PNone
    THEN Fails(Exc("XpyunError", "unsupported pay type"))                  \* line 87
    ELSE client_play_voice(c, sn, voice_type, Lookup(PAY_TYPES, pay_type), tr)

\* VoiceService.play_amount_voice(sn, amount, pay_type="CASH"): the amount is
\* formatted (str(amount), line 255) and not used; a pay_type without .upper
\* raises AttributeError at line 109
play_amount_voice(c, sn, amount, pay_type, tr) ==
    IF pay_type.k # "str"
    THEN Fails(Exc("AttributeError", "no attribute upper"))
    ELSE play_voice(c, sn, PStr("AMOUNT_" \o Upper(pay_type.s)), pay_type, tr)

\* an except clause for network errors only
VoiceCatches_OnlyNetwork(e) == IsInstance(e, "XpyunNetworkError")

\* does `except Exception` (lines 156, 180, 186) catch e
VoiceCatches(e) == IsInstance(e, "Exception")

\* lines 146-159: printed is what print_receipt did, voiced what
\* play_amount_voice does if it is called
PrintThenVoice(printed, wanted, voiced) ==
    IF printed.outcome.kind = "raise" \/ ~wanted THEN printed
    ELSE IF voiced.outcome.kind = "raise" /\ ~VoiceCatches(voiced.outcome.exc)
    THEN [voiced EXCEPT !.requests = printed.requests \o voiced.requests]
    ELSE [printed EXCEPT !.requests = printed.requests \o voiced.requests]

\* VoiceService.print_and_voice(sn, content, amount=None, voice_enabled=True,
\* pay_type="CASH")
print_and_voice(c, sn, content, amount, voice_enabled, pay_type, trPrint, trVoice) ==
    PrintThenVoice(
        print_receipt(c, [k \in {"sn", "content", "voice_enabled"} |->
                             CASE k = "sn" -> sn [] k = "content" -> content
                               [] k = "voice_enabled" -> voice_enabled], trPrint),
        Truth(voice_enabled) /\ amount # PNone,                            \* line 153
        play_amount_voice(c, sn, amount, pay_type, trVoice))

\* a handler that goes on only after a step that succeeded
Continues_OnlyOnSuccess(run) == run.outcome.kind = "return"

\* lines 177-181, 184-188: the function goes on after a step that returned or
\* whose exception the except clause caught
Continues(run) == run.outcome.kind = "return" \/ VoiceCatches(run.outcome.exc)

\* lines 176-188: amounted is what play_amount_voice did (wanted: it was
\* called), orderedLater what play_voice(sn, "NEW_ORDER") does after the
\* pause of line 179, orderedNow what it does without the pause. None is
\* returned as no body
AmountThenOrder(wanted, amounted, orderedLater, orderedNow) ==
    LET slept == wanted /\ amounted.outcome.kind = "return"
        ordered == IF slept THEN orderedLater ELSE orderedNow
    IN  IF wanted /\ ~Continues(amounted)
        THEN [requests |-> amounted.requests, outcome |-> amounted.outcome,
              entries |-> <<>>, elapsed |-> 0]
        ELSE [requests |-> (IF wanted THEN amounted.requests ELSE <<>>) \o ordered.requests,
              outcome |-> IF ordered.outcome.kind = "return" \/ ~Continues(ordered)
                          THEN ordered.outcome
                          ELSE Returned(NoBody),
              entries |-> <<>>,
              elapsed |-> IF slept THEN SleepMs ELSE 0]

\* VoiceService.voice_auto_order(sn, order_data): order_data.get is called at
\* line 172, outside the try blocks
voice_auto_order(c, sn, order_data, trAmount, trOrder) ==
    IF order_data.k # "map"
    THEN [requests |-> <<>>, outcome |-> Raised(Exc("AttributeError", "no attribute get")),
          entries |-> <<>>, elapsed |-> 0]
    ELSE AmountThenOrder(
             Get(order_data.d, "total_amount", PNone) # PNone,             \* line 176
             play_amount_voice(c, sn, Get(order_data.d, "total_amount", PNone),
                               Get(order_data.d, "pay_type", PStr("CASH")), trAmount),
             play_voice([c EXCEPT !.now = c.now + SleepMs], sn, PStr("NEW_ORDER"),
                        PNone, trOrder),
             play_voice(c, sn, PStr("NEW_ORDER"), PNone, trOrder))

----------------------------------------------------------------------------
(* printer_manager.py: PrinterManager *)

\* XpyunClient.query_printer_status(sn)
client_query_printer_status(c, sn, tr) ==
    OneRequest(c, "queryPrinterStatus", [k \in {"sn"} |-> sn], tr)

\* PrinterManager.get_printer_status(sn)
manager_get_printer_status(c, sn, tr) ==
    IF ~Truth(sn)
    THEN Fails(Exc("XpyunError", "printer sn must not be empty"))          \* line 139
    ELSE client_query_printer_status(c, sn, tr)

\* data.get(key, default) on the data of a status response that is truthy:
\* a value without .get raises AttributeError
DataGet(data, key, default) ==
    IF data.k = "map" THEN Get(data.d, key, default) ELSE PObj

\* is data a truthy value without a get method
NoGet(data) == Truth(data) /\ data.k # "map"

\* PrinterManager._is_printer_online(status_data)
is_printer_online(status_data) ==
    IF ~Truth(Get(status_data, "data", PNone)) THEN PBool(FALSE)
    ELSE DataGet(Get(status_data, "data", PNone), "connected", PBool(FALSE))

\* PrinterManager._get_queue_status(status_data)
get_queue_status(status_data) ==
    IF ~Truth(Get(status_data, "data", PNone)) THEN PStr("unknown")
    ELSE DataGet(Get(status_data, "data", PNone), "queue_status", PStr("normal"))

\* lines 170-175: the record built from a status response
PrinterInfo(sn, status_result) ==
    [k \in {"sn", "status", "is_online", "queue_status"} |->
        CASE k = "sn" -> sn
          [] k = "status" -> Get(status_result, "data", PNone)
          [] k = "is_online" -> is_printer_online(status_result)
          [] k = "queue_status" -> get_queue_status(status_result)]

\* lines 177-182: the record returned when the query failed
UnknownInfo(sn) ==
    [k \in {"sn", "status", "is_online", "queue_status"} |->
        CASE k = "sn" -> sn
          [] k = "status" -> PStr("unknown")
          [] k = "is_online" -> PBool(FALSE)
          [] k = "queue_status" -> PStr("unknown")]

\* an except clause for API errors only
InfoCatches_OnlyApi(e) == IsInstance(e, "XpyunAPIError")

\* does `except XpyunError` (line 176) catch e
InfoCatches(e) == IsInstance(e, "XpyunError")

\* lines 168-182: queried is what get_printer_status did
InfoOf(sn, queried) ==
    [queried EXCEPT !.outcome =
        IF queried.outcome.kind = "return"
        THEN IF NoGet(Get(queried.outcome.result.obj, "data", PNone))
             THEN IF InfoCatches(Exc("AttributeError", "no attribute get"))
                  THEN Returned(ObjectBody(UnknownInfo(sn)))
                  ELSE Raised(Exc("AttributeError", "no attribute get"))
             ELSE Returned(ObjectBody(PrinterInfo(sn, queried.outcome.result.obj)))
        ELSE IF InfoCatches(queried.outcome.exc)
        THEN Returned(ObjectBody(UnknownInfo(sn)))
        ELSE queried.outcome]

\* PrinterManager.get_printer_info(sn)
manager_get_printer_info(c, sn, tr) == InfoOf(sn, manager_get_printer_status(c, sn, tr))

----------------------------------------------------------------------------
(* query_service.py: QueryService *)

\* the day of a clock reading, counted from 1970-01-01 (the clock is taken as
\* UTC)
DayOf(nowMs) == nowMs \div MsPerDay

TwoDigits(i) == IF i < 10 THEN "0" \o IntToStr(i) ELSE IntToStr(i)

\* strftime('%Y%m%d') of a day of December 1969 or January 1970
Strftime(day) ==
    IF day < 0 THEN "196912" \o TwoDigits(32 + day) ELSE "197001" \o TwoDigits(day + 1)

\* XpyunClient.query_order_statistics(sn, start_time, end_time)
client_query_order_statistics(c, sn, start_time, end_time, tr) ==
    OneRequest(c, "queryOrderStatis",
        [k \in {"sn", "dateFrom", "dateTo"} |->
            CASE k = "sn" -> sn [] k = "dateFrom" -> start_time
              [] k = "dateTo" -> end_time],
        tr)

\* _parse_statistics, _parse_printer_status: data = api_response.get("data", {})
\* and data.get(...) for each field, which raises AttributeError on a data
\* that is no dict. The parsed record is kept as its raw_data entry
ParsedData(api_response) == Get(api_response, "data", PMap(EmptyDict))

Parsed(run) ==
    IF run.outcome.kind = "return" /\ ParsedData(run.outcome.result.obj).k # "map"
    THEN [run EXCEPT !.outcome = Raised(Exc("AttributeError", "no attribute get"))]
    ELSE run

\* lines 60-66: the range of the last `days` days, today included
DateRange(nowMs, days) ==
    [start |-> PStr(Strftime(DayOf(nowMs) - (days - 1))), end |-> PStr(Strftime(DayOf(nowMs)))]

\* QueryService.get_order_statistics(sn, start_date=None, end_date=None, days=1)
get_order_statistics(c, sn, start_date, end_date, days, tr) ==
    IF ~Truth(sn)
    THEN Fails(Exc("XpyunError", "printer sn must not be empty"))          \* line 58
    ELSE IF ~Truth(start_date) \/ ~Truth(end_date)
    THEN Parsed(client_query_order_statistics(c, sn, DateRange(c.now, days).start,
                                              DateRange(c.now, days).end, tr))
    ELSE Parsed(client_query_order_statistics(c, sn, start_date, end_date, tr))

\* QueryService.get_printer_status(sn)
query_get_printer_status(c, sn, tr) ==
    IF ~Truth(sn)
    THEN Fails(Exc("XpyunError", "printer sn must not be empty"))          \* line 82
    ELSE Parsed(client_query_printer_status(c, sn, tr))

\* lines 138-145: the record returned; last_update is kept as its date
QueryInfo(sn, nowMs, status, today_stats, yesterday_stats) ==
    [k \in {"sn", "status", "today_stats", "yesterday_stats", "is_online", "last_update"} |->
        CASE k = "sn" -> sn
          [] k = "status" -> status
          [] k = "today_stats" -> today_stats
          [] k = "yesterday_stats" -> yesterday_stats
          [] k = "is_online" -> Get(status.d, "connected", PBool(FALSE))
          [] k = "last_update" -> PStr(Strftime(DayOf(nowMs)))]

\* lines 130-145: the three queries in order, each made only if the one
\* before it returned
ThreeQueries(sn, nowMs, status, today, yesterday) ==
    IF status.outcome.kind = "raise" THEN status
    ELSE IF today.outcome.kind = "raise"
    THEN [today EXCEPT !.requests = status.requests \o today.requests]
    ELSE IF yesterday.outcome.kind = "raise"
    THEN [yesterday EXCEPT
             !.requests = status.requests \o today.requests \o yesterday.requests]
    ELSE ServiceRun(status.requests \o today.requests \o yesterday.requests,
                    Returned(ObjectBody(
                        QueryInfo(sn, nowMs, ParsedData(status.outcome.result.obj),
                                  ParsedData(today.outcome.result.obj),
                                  ParsedData(yesterday.outcome.result.obj)))))

\* QueryService.get_printer_info(sn)
query_get_printer_info(c, sn, trStatus, trToday, trYesterday) ==
    IF ~Truth(sn)
    THEN Fails(Exc("XpyunError", "printer sn must not be empty"))          \* line 127
    ELSE ThreeQueries(sn, c.now,
             query_get_printer_status(c, sn, trStatus),
             get_order_statistics(c, sn, PNone, PNone, 1, trToday),        \* line 133
             get_order_statistics(c, sn, PNone, PNone, 1, trYesterday))    \* line 136

----------------------------------------------------------------------------
(* Inputs *)

Users == {"u1"}
UserKeys == {"k1", "k2"}
Methods == {"print", "queryPrinterStatus"}

ParamKeys == ReservedKeys \cup {"sn"}

\* the dicts a caller passes: up to MaxParamKeys string entries, or one entry
\* that json cannot serialise
ParamDicts ==
    UNION {[S -> {PStr("v")}] : S \in {T \in SUBSET ParamKeys : Cardinality(T) <= MaxParamKeys}}
    \cup {[k \in {"sn"} |-> PObj]}

ParamsValues ==
    {ParamsNone, ParamsInt(0), ParamsInt(5)} \cup {ParamsDict(d) : d \in ParamDicts}

\* the timestamp arguments of direct generate_sign calls (None: not given)
TimestampArgs == {PNone, PStr("1"), PStr("1700000000")}

Drifts == {0, TickMs}
MaxClock == StartMs + 2 * TickMs

\* what the transport does with a request of the print service: the server
\* accepts it, the server refuses it, or the connection fails
Accepted == Response(200, ObjectBody([k \in {"code", "data"} |->
                IF k = "code" THEN PInt(0) ELSE PStr("X")]))
Refused == Response(200, ObjectBody([k \in {"code", "msg"} |->
                IF k = "code" THEN PInt(3) ELSE PStr("printer not found")]))
ServiceOutcomes == {Accepted, Refused, Failure("ConnectionError")}

Sns == {PStr(""), PStr("SN1")}
Contents == {PStr(""), PStr("c")}
CopiesValues == {PInt(0), PInt(1), PInt(MaxCopies), PInt(MaxCopies + 1)}
QuantityValues == {PInt(0), PInt(1), PInt(MaxQuantity), PInt(MaxQuantity + 1)}
SizeValues == {PInt(0), PInt(60)}

\* the keyword arguments of direct print_receipt calls
ReceiptArgs ==
    {[k \in {"sn", "content", "copies", "auto_print", "voice_enabled"} |->
         CASE k = "sn" -> sn [] k = "content" -> content [] k = "copies" -> copies
           [] k = "auto_print" -> PBool(a) [] k = "voice_enabled" -> PBool(v)] :
       sn \in Sns, content \in Contents, copies \in CopiesValues,
       a \in BOOLEAN, v \in BOOLEAN}
    \cup {[k \in {"sn", "content"} |-> IF k = "sn" THEN sn ELSE PStr("c")] : sn \in Sns}

\* the keyword arguments of direct print_label calls
LabelArgs ==
    {[k \in {"sn", "content", "height", "width", "quantity"} |->
         CASE k = "sn" -> sn [] k = "content" -> content [] k = "height" -> h
           [] k = "width" -> w [] k = "quantity" -> q] :
       sn \in Sns, content \in Contents, h \in SizeValues, w \in SizeValues,
       q \in QuantityValues}
    \cup {[k \in {"sn", "content", "height"} |->
              CASE k = "sn" -> PStr("SN1") [] k = "content" -> PStr("c")
                [] k = "height" -> h] : h \in SizeValues}

\* example.py:120-124, the receipt task of the usage example
ReceiptTask ==
    [k \in {"sn", "content", "copies"} |->
        CASE k = "sn" -> PStr("SN1") [] k = "content" -> PStr("c")
          [] k = "copies" -> PInt(1)]

\* example.py:125-132, the label task of the usage example
ExampleLabelTask ==
    [k \in {"sn", "content", "height", "width", "quantity"} |->
        CASE k = "sn" -> PStr("SN1") [] k = "content" -> PStr("c")
          [] k = "height" -> PInt(60) [] k = "width" -> PInt(40)
          [] k = "quantity" -> PInt(1)]

\* a label job that reaches the else branch of batch_print (line 154)
BareLabelTask == Without(ExampleLabelTask, {"content"})

OrderTask ==
    [k \in {"sn", "order_data"} |-> IF k = "sn" THEN PStr("SN1") ELSE PDict("order")]

OrderLabelTask ==
    [k \in {"sn", "order_data", "order_type"} |->
        CASE k = "sn" -> PStr("SN1") [] k = "order_data" -> PDict("order")
          [] k = "order_type" -> PStr("label")]

\* a receipt task that fails the argument check
EmptySnTask == [k \in {"sn", "content"} |-> IF k = "sn" THEN PStr("") ELSE PStr("c")]

\* the voice_type arguments of set_voice_type: names in several spellings, a
\* name that is no voice type, the empty string, and integers
VoiceTypeArgs ==
    {PStr("ENGLISH_MALE"), PStr("english_male"), PStr("English_Male"),
     PStr("mandarin_female"), PStr("robot"), PStr(""), PInt(0), PInt(3), PInt(9)}

\* amounts: none given, zero, and a positive one
Amounts == {PNone, PInt(0), PInt(25)}

\* pay types: a name in two spellings, a name that is no pay type, an integer
PayTypeArgs == {PStr("CASH"), PStr("cash"), PStr("wechat"), PInt(2)}

\* the order_data arguments of voice_auto_order: dicts with and without
\* total_amount and pay_type, and None
OrderDataArgs ==
    {PMap(EmptyDict), PNone}
    \cup {PMap([k \in {"total_amount"} |-> a]) : a \in Amounts}
    \cup {PMap([k \in {"total_amount", "pay_type"} |->
                  IF k = "total_amount" THEN PInt(25) ELSE p]) :
             p \in {PStr("cash"), PStr("wechat"), PNone}}

\* the data of a status response: a dict that reports the connection, an
\* empty dict, and the integer status code
StatusData ==
    {PMap([k \in {"connected"} |-> PBool(b)]) : b \in BOOLEAN}
    \cup {PMap(EmptyDict), PInt(1), PInt(0)}

\* what the transport does with a status query: the server answers with or
\* without data, refuses, the connection fails, or the body is not JSON
StatusOutcomes ==
    {Response(200, ObjectBody([k \in {"code", "data"} |->
                                 IF k = "code" THEN PInt(0) ELSE d])) : d \in StatusData}
    \cup {Response(200, ObjectBody([k \in {"code"} |-> PInt(0)])), Refused,
          Failure("ConnectionError")}
    \cup {Response(200, TextBody(e)) : e \in JsonDecodeErrors}

\* what the transport does with a statistics query
StatsOutcomes ==
    {Response(200, ObjectBody([k \in {"code", "data"} |->
        IF k = "code" THEN PInt(0) ELSE PMap([f \in {"printCount"} |-> PInt(3)])])),
     Refused, Failure("ConnectionError")}

\* the tasks of a batch: dicts, and None for a malformed task
TaskValues ==
    {ParamsDict(d) : d \in {ReceiptTask, ExampleLabelTask, BareLabelTask, OrderTask,
                            OrderLabelTask, EmptySnTask}}
    \cup {ParamsNone}

TaskLists == UNION {[1..n -> TaskValues] : n \in 0..MaxTasks}

----------------------------------------------------------------------------
(* The state machine *)

NoCall == [method |-> "", params |-> ParamsNone, generated |-> EmptyDict,
           transport |-> NoTransport, params_after |-> ParamsNone]

NoOp == [name |-> "", args |-> EmptyDict, tasks |-> <<>>]
NoOpResult == [kind |-> "none", exc |-> NoExc, result |-> NoBody, entries |-> <<>>]

\* the caller holds nothing: no result of a call, no exception to handle
Idle == outcome.kind = "none" /\ op = NoOp /\ authLog = <<>>

Init ==
    /\ auth \in [user : Users, user_key : UserKeys]
    /\ debug \in BOOLEAN
    /\ clock = StartMs
    /\ calls = 0
    /\ call = NoCall
    /\ trace = <<>>
    /\ outcome = NoOutcome
    /\ ctor = [user |-> auth.user, user_key |-> auth.user_key, debug |-> debug]
    /\ authLog = <<>>
    /\ op = NoOp
    /\ opRequests = <<>>
    /\ opResult = NoOpResult

\* one call of client._make_request(method, params), made when the caller
\* holds no unhandled result (calls are synchronous: one at a time); the
\* clock advances by drift between the two times the call reads it, and tr is
\* what the transport does if the request reaches it
MakeRequest ==
    /\ Idle
    /\ calls < MaxCalls
    /\ \E method \in Methods, params \in ParamsValues, drift \in Drifts,
          tr \in TransportOutcomes :
          /\ clock + drift <= MaxClock
          /\ LET run == make_request(auth, debug, method, params, clock, clock + drift, tr)
             IN  /\ trace' = run.events
                 /\ outcome' = run.outcome
                 /\ call' = [method |-> method, params |-> params,
                             generated |-> GeneratedEnvelope(auth, clock, clock + drift),
                             transport |-> tr, params_after |-> run.params_after]
          /\ clock' = clock + drift
    /\ calls' = calls + 1
    /\ UNCHANGED <<auth, debug, ctor, authLog, op, opRequests, opResult>>

\* the caller calls client.auth.generate_sign(timestamp) and keeps the result
GenerateSign(timestamp) ==
    /\ outcome.kind = "none" /\ op = NoOp
    /\ Len(authLog) < MaxAuthCalls
    /\ authLog' = Append(authLog,
          [op |-> "generate_sign", at |-> clock, arg |-> timestamp,
           out |-> [k \in {"sign"} |-> PStr(generate_sign_at(auth, timestamp, clock))]])
    /\ UNCHANGED <<auth, debug, clock, calls, call, trace, outcome, ctor, op,
                   opRequests, opResult>>

\* the caller calls client.auth.get_auth_params() and keeps the result
GetAuthParams ==
    /\ outcome.kind = "none" /\ op = NoOp
    /\ Len(authLog) < MaxAuthCalls
    /\ authLog' = Append(authLog,
          [op |-> "get_auth_params", at |-> clock, arg |-> PNone,
           out |-> get_auth_params(auth, clock)])
    /\ UNCHANGED <<auth, debug, clock, calls, call, trace, outcome, ctor, op,
                   opRequests, opResult>>

\* the service object's view of the program at a call
Here == [auth |-> auth, debug |-> debug, now |-> clock]

\* the caller holds what the service call run did
Finished(run) ==
    /\ opRequests' = run.requests
    /\ opResult' = [kind |-> run.outcome.kind, exc |-> run.outcome.exc,
                    result |-> run.outcome.result, entries |-> run.entries]

\* one call of PrintService.print_receipt(**args); tr is what the transport
\* does if a request reaches it
PrintReceipt ==
    /\ Idle
    /\ calls < MaxCalls
    /\ \E args \in ReceiptArgs, tr \in ServiceOutcomes :
          /\ Finished(print_receipt(Here, args, tr))
          /\ op' = [name |-> "print_receipt", args |-> args, tasks |-> <<>>]
    /\ calls' = calls + 1
    /\ UNCHANGED <<auth, debug, clock, call, trace, outcome, ctor, authLog>>

\* one call of PrintService.print_label(**args)
PrintLabel ==
    /\ Idle
    /\ calls < MaxCalls
    /\ \E args \in LabelArgs, tr \in ServiceOutcomes :
          /\ Finished(print_label(Here, args, tr))
          /\ op' = [name |-> "print_label", args |-> args, tasks |-> <<>>]
    /\ calls' = calls + 1
    /\ UNCHANGED <<auth, debug, clock, call, trace, outcome, ctor, authLog>>

\* one call of PrintService.batch_print(tasks); trs[i] is what the transport
\* does with a request of task i
BatchPrint ==
    /\ Idle
    /\ calls < MaxCalls
    /\ \E tasks \in TaskLists :
          \E trs \in [1..Len(tasks) -> ServiceOutcomes] :
              /\ Finished(batch_print(Here, tasks, trs))
              /\ op' = [name |-> "batch_print", args |-> EmptyDict, tasks |-> tasks]
    /\ calls' = calls + 1
    /\ UNCHANGED <<auth, debug, clock, call, trace, outcome, ctor, authLog>>

\* one call of VoiceService.set_voice_type(sn, voice_type, voice_enabled)
SetVoiceType ==
    /\ Idle
    /\ calls < MaxCalls
    /\ \E sn \in Sns, voice_type \in VoiceTypeArgs, voice_enabled \in BOOLEAN,
          tr \in ServiceOutcomes :
          /\ Finished(set_voice_type(Here, sn, voice_type, PBool(voice_enabled), tr))
          /\ op' = [name |-> "set_voice_type",
                    args |-> [k \in {"sn", "voice_type", "voice_enabled"} |->
                                CASE k = "sn" -> sn [] k = "voice_type" -> voice_type
                                  [] k = "voice_enabled" -> PBool(voice_enabled)],
                    tasks |-> <<>>]
    /\ calls' = calls + 1
    /\ UNCHANGED <<auth, debug, clock, call, trace, outcome, ctor, authLog>>

\* one call of VoiceService.print_and_voice(sn, content, amount, voice_enabled,
\* pay_type); trPrint and trVoice are what the transport does with the print
\* request and with the voice request
PrintAndVoice ==
    /\ Idle
    /\ calls < MaxCalls
    /\ \E sn \in Sns, content \in Contents, amount \in Amounts, voice_enabled \in BOOLEAN,
          pay_type \in PayTypeArgs, trPrint \in ServiceOutcomes, trVoice \in ServiceOutcomes :
          /\ Finished(print_and_voice(Here, sn, content, amount, PBool(voice_enabled),
                                      pay_type, trPrint, trVoice))
          /\ op' = [name |-> "print_and_voice",
                    args |-> [k \in {"sn", "content", "amount", "voice_enabled", "pay_type"} |->
                                CASE k = "sn" -> sn [] k = "content" -> content
                                  [] k = "amount" -> amount
                                  [] k = "voice_enabled" -> PBool(voice_enabled)
                                  [] k = "pay_type" -> pay_type],
                    tasks |-> <<>>]
    /\ calls' = calls + 1
    /\ UNCHANGED <<auth, debug, clock, call, trace, outcome, ctor, authLog>>

\* the call run has ended, the time it spent sleeping has passed
FinishedAfterSleep(run) ==
    /\ clock + run.elapsed <= MaxClock
    /\ clock' = clock + run.elapsed
    /\ Finished(run)

\* one call of VoiceService.voice_auto_order(sn, order_data)
VoiceAutoOrder ==
    /\ Idle
    /\ calls < MaxCalls
    /\ \E sn \in Sns, order_data \in OrderDataArgs, trAmount \in ServiceOutcomes,
          trOrder \in ServiceOutcomes :
          /\ FinishedAfterSleep(voice_auto_order(Here, sn, order_data, trAmount, trOrder))
          /\ op' = [name |-> "voice_auto_order",
                    args |-> [k \in {"sn", "order_data"} |->
                                IF k = "sn" THEN sn ELSE order_data],
                    tasks |-> <<>>]
    /\ calls' = calls + 1
    /\ UNCHANGED <<auth, debug, call, trace, outcome, ctor, authLog>>

\* one call of PrinterManager.get_printer_info(sn)
ManagerGetPrinterInfo ==
    /\ Idle
    /\ calls < MaxCalls
    /\ \E sn \in Sns, tr \in StatusOutcomes :
          /\ Finished(manager_get_printer_info(Here, sn, tr))
          /\ op' = [name |-> "manager_get_printer_info",
                    args |-> [k \in {"sn"} |-> sn], tasks |-> <<>>]
    /\ calls' = calls + 1
    /\ UNCHANGED <<auth, debug, clock, call, trace, outcome, ctor, authLog>>

\* one call of QueryService.get_printer_info(sn)
QueryGetPrinterInfo ==
    /\ Idle
    /\ calls < MaxCalls
    /\ \E sn \in Sns, trStatus \in StatusOutcomes, trToday \in StatsOutcomes,
          trYesterday \in StatsOutcomes :
          /\ Finished(query_get_printer_info(Here, sn, trStatus, trToday, trYesterday))
          /\ op' = [name |-> "query_get_printer_info",
                    args |-> [k \in {"sn"} |-> sn], tasks |-> <<>>]
    /\ calls' = calls + 1
    /\ UNCHANGED <<auth, debug, clock, call, trace, outcome, ctor, authLog>>

\* the caller has used the value returned, or handled the exception raised:
\* the locals of the finished call are gone
CallerContinues ==
    /\ ~Idle
    /\ call' = NoCall
    /\ trace' = <<>>
    /\ outcome' = NoOutcome
    /\ authLog' = <<>>
    /\ op' = NoOp
    /\ opRequests' = <<>>
    /\ opResult' = NoOpResult
    /\ UNCHANGED <<auth, debug, clock, calls, ctor>>

\* time passes between calls
Tick ==
    /\ outcome.kind = "none" /\ op = NoOp
    /\ clock + TickMs <= MaxClock
    /\ clock' = clock + TickMs
    /\ UNCHANGED <<auth, debug, calls, call, trace, outcome, ctor, authLog, op,
                   opRequests, opResult>>

Next ==
    \/ MakeRequest
    \/ \E timestamp \in TimestampArgs : GenerateSign(timestamp)
    \/ GetAuthParams
    \/ PrintReceipt
    \/ PrintLabel
    \/ BatchPrint
    \/ SetVoiceType
    \/ PrintAndVoice
    \/ VoiceAutoOrder
    \/ ManagerGetPrinterInfo
    \/ QueryGetPrinterInfo
    \/ CallerContinues
    \/ Tick

Spec == Init /\ [][Next]_vars

----------------------------------------------------------------------------
(* What the properties below read off a finished call *)

Called == outcome.kind # "none"
Posts == SelectSeq(trace, LAMBDA e : e.ev = "post")
Posted == Len(Posts) >= 1
RaisedClass(cls) == outcome.kind = "raise" /\ outcome.exc.cls = cls
GotResponse == Posted /\ call.transport.kind = "response"
GotObject == GotResponse /\ call.transport.body.form = "object"
HttpOk == call.transport.status < HttpErrorFrom
ResponseObj == call.transport.body.obj

----------------------------------------------------------------------------
(* C1..C10: the dispatcher *)

\* C1: in every envelope that is posted, each reserved key (user, timestamp,
\* sign, requestTime) holds the value the dispatcher generated for this call;
\* an entry of params with such a key does not replace it.
C1_ReservedKeysKept ==
    \A i \in DOMAIN Posts :
        \A key \in ReservedKeys :
            /\ key \in DOMAIN Posts[i].env
            /\ Posts[i].env[key] = call.generated[key]

\* C2: in every posted envelope, sign is the signature of the client's
\* (user, user_key) and of the timestamp field of that same envelope, and
\* user is the client's user.
C2_SignMatchesEnvelope ==
    \A i \in DOMAIN Posts :
        LET env == Posts[i].env
        IN  /\ env["sign"] = PStr(generate_sign(auth, env["timestamp"].s))
            /\ env["user"] = PStr(auth.user)

\* the object has a code and it is not 0 (JSON false is Python's False, which
\* equals 0)
CodeNotZero(obj) == "code" \in DOMAIN obj /\ obj["code"] \notin {PInt(0), PBool(FALSE)}

\* C3 (as claimed): whenever the transport returns a JSON object whose code is
\* not 0, the call raises XpyunAPIError with code, message and data equal to
\* the response's code, msg and data (data None when absent).
C3_ApiErrorCarriesResponse ==
    (GotObject /\ CodeNotZero(ResponseObj))
    => /\ RaisedClass("XpyunAPIError")
       /\ outcome.exc.code = ResponseObj["code"]
       /\ "msg" \in DOMAIN ResponseObj => outcome.exc.message = ResponseObj["msg"]
       /\ outcome.exc.data = Get(ResponseObj, "data", PNone)

\* C3 (amended): the same, for a response whose HTTP status is not an error
\* status (below 400).
C3_ApiErrorCarriesResponseHttpOk ==
    (GotObject /\ HttpOk /\ CodeNotZero(ResponseObj))
    => /\ RaisedClass("XpyunAPIError")
       /\ outcome.exc.code = ResponseObj["code"]
       /\ "msg" \in DOMAIN ResponseObj => outcome.exc.message = ResponseObj["msg"]
       /\ outcome.exc.data = Get(ResponseObj, "data", PNone)

\* the example of C3: {code: 3, msg: "printer not found"} was answered with
\* status 200 and the call raised XpyunAPIError(3, "printer not found")
C3_Witness ==
    /\ GotObject /\ HttpOk
    /\ ResponseObj = [k \in {"code", "msg"} |->
                         IF k = "code" THEN PInt(3) ELSE PStr("printer not found")]
    /\ RaisedClass("XpyunAPIError")
    /\ outcome.exc.code = PInt(3)
    /\ outcome.exc.message = PStr("printer not found")
    /\ outcome.exc.data = PNone

\* C4 (as claimed): whenever the transport returns a JSON object with code 0,
\* the call raises nothing and returns the whole parsed object, unchanged.
C4_SuccessReturnsWholeResponse ==
    (GotObject /\ Get(ResponseObj, "code", PNone) = PInt(0))
    => /\ outcome.kind = "return"
       /\ outcome.result = call.transport.body

\* C4 (amended): the same, for a response whose HTTP status is not an error
\* status (below 400).
C4_SuccessReturnsWholeResponseHttpOk ==
    (GotObject /\ HttpOk /\ Get(ResponseObj, "code", PNone) = PInt(0))
    => /\ outcome.kind = "return"
       /\ outcome.result = call.transport.body

\* a call answered {code: 0, data: "X"} with status 200 returned that object
C4_Witness ==
    /\ GotObject /\ HttpOk
    /\ ResponseObj = [k \in {"code", "data"} |-> IF k = "code" THEN PInt(0) ELSE PStr("X")]
    /\ outcome.kind = "return"
    /\ outcome.result.obj["data"] = PStr("X")

\* C5: when the POST fails at connection level (connection refused, timeout,
\* TLS failure), the call raises XpyunNetworkError, not the transport's
\* exception.
C5_ConnectionFailureIsNetworkError ==
    (Posted /\ call.transport.kind = "raise") => RaisedClass("XpyunNetworkError")

\* a POST that timed out surfaced as XpyunNetworkError
C5_Witness ==
    /\ Posted
    /\ call.transport.kind = "raise" /\ call.transport.exc = "Timeout"
    /\ RaisedClass("XpyunNetworkError")

\* C6: when the response has a non-error HTTP status and a body that is not
\* valid JSON, the call raises XpyunError itself, not XpyunNetworkError or
\* XpyunAPIError.
C6_ParseFailureIsGenericError ==
    (GotResponse /\ HttpOk /\ call.transport.body.form = "nonjson")
    => RaisedClass("XpyunError")

\* C7: every exception that leaves _make_request is an XpyunError or an
\* instance of one of its subclasses.
C7_OnlySdkErrorsEscape ==
    outcome.kind = "raise" => "XpyunError" \in Bases(outcome.exc.cls)

\* the outcomes C8 lists
SuccessOutcome == outcome.kind = "return"
ParseErrorOutcome ==
    RaisedClass("XpyunError") /\ outcome.exc.text = "response parse failed"
ListedOutcome ==
    \/ SuccessOutcome
    \/ RaisedClass("XpyunAPIError")
    \/ RaisedClass("XpyunNetworkError")
    \/ ParseErrorOutcome

\* C8: a call never issues a second POST, and a call that ends in success, an
\* API error, a network error or a parse error has issued exactly one.
C8_SinglePostPerCall ==
    Called => /\ Len(Posts) <= 1
              /\ ListedOutcome => Len(Posts) = 1

\* a call whose only POST failed: the failure was reported, with no second POST
C8_Witness ==
    /\ call.transport.kind = "raise"
    /\ RaisedClass("XpyunNetworkError")
    /\ Len(Posts) = 1

\* a response carries no message text: no msg (or message) field, or a null
\* or empty one
NoMessageText(obj) ==
    \A key \in {"msg", "message"} :
        key \in DOMAIN obj => obj[key] \in {PNone, PStr("")}

\* C9 (as claimed): an XpyunAPIError raised for a response that carries no
\* message text has the default message "unknown error".
C9_DefaultMessage ==
    (RaisedClass("XpyunAPIError") /\ NoMessageText(ResponseObj))
    => outcome.exc.message = PStr("unknown error")

\* C9 (amended): an XpyunAPIError raised for a response that has no msg key
\* has the default message "unknown error".
C9_DefaultMessageWhenMsgAbsent ==
    (RaisedClass("XpyunAPIError") /\ "msg" \notin DOMAIN ResponseObj)
    => outcome.exc.message = PStr("unknown error")

\* a response {code: 3} without msg raised XpyunAPIError with the default message
C9_Witness ==
    /\ RaisedClass("XpyunAPIError")
    /\ ResponseObj = [k \in {"code"} |-> PInt(3)]
    /\ outcome.exc.message = PStr("unknown error")

\* C10: every posted envelope has the fields user, timestamp, sign and
\* requestTime, requestTime being an integer, and has every key of params.
C10_EnvelopeFields ==
    \A i \in DOMAIN Posts :
        LET env == Posts[i].env
        IN  /\ ReservedKeys \subseteq DOMAIN env
            /\ env["requestTime"].k = "int"
            /\ call.params.kind = "dict" => DOMAIN call.params.d \subseteq DOMAIN env

----------------------------------------------------------------------------
(* C11..C13: what the dispatcher transmits, prints and raises *)

\* the events of the last call that show an outgoing envelope
ShowsEnvelope(e) == e.ev \in {"post", "print_request"}

\* C11: in every outgoing envelope (posted, or printed by debug) no field the
\* dispatcher generated has the secret user_key as its value; each such field
\* is the generated one, and the generated sign is the signature derived from
\* user, user_key and timestamp.
C11_SecretNotTransmitted ==
    \A i \in DOMAIN trace :
        ShowsEnvelope(trace[i]) =>
            /\ \A key \in ReservedKeys \ DOMAIN call.params.d :
                  /\ trace[i].env[key] = call.generated[key]
                  /\ trace[i].env[key].s # auth.user_key
            /\ call.generated["sign"] =
                  PStr(generate_sign(auth, call.generated["timestamp"].s))

\* a debug call printed and posted an envelope whose sign is the signature
C11_Witness ==
    /\ debug
    /\ \E i, j \in DOMAIN trace :
          /\ trace[i].ev = "print_request" /\ trace[j].ev = "post"
          /\ trace[j].env["sign"] = PStr(generate_sign(auth, trace[j].env["timestamp"].s))
          /\ trace[j].env["sign"].s # auth.user_key

\* every POST directly follows the printing of the envelope it posts
PostFollowsPrintedEnvelope ==
    \A i \in DOMAIN trace :
        trace[i].ev = "post" =>
            /\ i > 1
            /\ trace[i - 1].ev = "print_request"
            /\ trace[i - 1].env = trace[i].env

\* the response of the transport is printed, after the POST
ResponsePrintedAfterPost ==
    \E i, j \in DOMAIN trace :
        /\ i < j
        /\ trace[i].ev = "post"
        /\ trace[j].ev = "print_response"
        /\ trace[j].body = call.transport.body

NothingPrinted == \A i \in DOMAIN trace : trace[i].ev = "post"
NoResponsePrinted == \A i \in DOMAIN trace : trace[i].ev # "print_response"

\* the response body is JSON (response.json() returns)
JsonBody == call.transport.body.form \in {"object", "array"}

\* C12 (as claimed): with debug on, the envelope is printed before the POST
\* and the response is printed after it for every transport outcome that
\* delivers a response, non-2xx and non-JSON responses included; with debug
\* off nothing is printed.
C12_DebugPrintsEnvelopeAndResponse ==
    Called =>
        IF debug
        THEN /\ PostFollowsPrintedEnvelope
             /\ GotResponse => ResponsePrintedAfterPost
        ELSE NothingPrinted

\* C12 (amended): with debug on, the envelope is printed before the POST, and
\* the response is printed after it exactly when it has a non-error HTTP
\* status and a JSON body; with debug off nothing is printed.
C12_DebugPrintsParsedResponse ==
    Called =>
        IF debug
        THEN /\ PostFollowsPrintedEnvelope
             /\ (GotResponse /\ HttpOk /\ JsonBody) => ResponsePrintedAfterPost
             /\ ~(GotResponse /\ HttpOk /\ JsonBody) => NoResponsePrinted
        ELSE NothingPrinted

\* a debug call whose response was an API error printed envelope, then
\* posted, then printed the response
C12_Witness ==
    /\ debug
    /\ RaisedClass("XpyunAPIError")
    /\ Len(trace) = 3
    /\ trace[1].ev = "print_request" /\ trace[2].ev = "post"
    /\ trace[3].ev = "print_response" /\ trace[3].body = call.transport.body

\* C13 (as claimed): _make_request never raises XpyunAuthError, and a
\* response with code not 0 surfaces as XpyunAPIError carrying that code,
\* whatever the transport does.
C13_NeverAuthError ==
    /\ ~RaisedClass("XpyunAuthError")
    /\ (GotObject /\ CodeNotZero(ResponseObj))
       => (RaisedClass("XpyunAPIError") /\ outcome.exc.code = ResponseObj["code"])

\* C13 (amended): _make_request never raises XpyunAuthError, and a response
\* of non-error HTTP status with code not 0 surfaces as XpyunAPIError carrying
\* that code.
C13_NeverAuthErrorHttpOk ==
    /\ ~RaisedClass("XpyunAuthError")
    /\ (GotObject /\ HttpOk /\ CodeNotZero(ResponseObj))
       => (RaisedClass("XpyunAPIError") /\ outcome.exc.code = ResponseObj["code"])

\* a rejected request surfaced as XpyunAPIError with the code of the response
C13_Witness ==
    /\ GotObject /\ HttpOk
    /\ ResponseObj = [k \in {"code", "data"} |-> IF k = "code" THEN PInt(3) ELSE PStr("X")]
    /\ RaisedClass("XpyunAPIError")
    /\ outcome.exc.code = PInt(3)

----------------------------------------------------------------------------
(* C14..C17: the signer, the clock and what stays unchanged *)

SignCalls == {i \in DOMAIN authLog : authLog[i].op = "generate_sign" /\ authLog[i].arg # PNone}
AuthParamsCalls == {i \in DOMAIN authLog : authLog[i].op = "get_auth_params"}

CredentialsAsConstructed ==
    /\ auth.user = ctor.user
    /\ auth.user_key = ctor.user_key
    /\ debug = ctor.debug

\* C14: generate_sign with an explicit timestamp returns the hash of
\* user + user_key + timestamp, in that order, whatever the clock shows; it
\* changes no state, and calls with the same timestamp return the same value.
C14_GenerateSignPure ==
    /\ \A i \in SignCalls :
          authLog[i].out["sign"] =
              PStr(Sha1Hex(ctor.user \o ctor.user_key \o authLog[i].arg.s))
    /\ \A i, j \in SignCalls :
          authLog[i].arg = authLog[j].arg => authLog[i].out = authLog[j].out
    /\ SignCalls # {} => CredentialsAsConstructed

\* the same explicit timestamp signed at two different clock readings, with
\* the same result
C14_Witness ==
    \E i, j \in SignCalls :
        /\ i < j
        /\ authLog[i].at # authLog[j].at
        /\ authLog[i].arg = authLog[j].arg
        /\ authLog[i].out = authLog[j].out

\* each result of get_auth_params carries the signature of its own timestamp
AuthParamsConsistent ==
    \A i \in AuthParamsCalls :
        /\ authLog[i].out["timestamp"] = PStr(IntToStr(authLog[i].at \div MsPerSec))
        /\ authLog[i].out["sign"] =
              PStr(generate_sign(auth, authLog[i].out["timestamp"].s))

DifferentTimestampAndSign(i, j) ==
    /\ authLog[i].out["timestamp"] # authLog[j].out["timestamp"]
    /\ authLog[i].out["sign"] # authLog[j].out["sign"]

\* C15 (as claimed): two calls of get_auth_params made at different times
\* return different timestamps and different signs, each sign being the
\* signature of the timestamp of its own triple.
C15_DifferentTimesDifferentTimestamps ==
    /\ AuthParamsConsistent
    /\ \A i, j \in AuthParamsCalls :
          authLog[i].at # authLog[j].at => DifferentTimestampAndSign(i, j)

\* C15 (amended): the same for two calls made in different clock seconds; two
\* calls within one second return the same timestamp and sign.
C15_DifferentSecondsDifferentTimestamps ==
    /\ AuthParamsConsistent
    /\ \A i, j \in AuthParamsCalls :
          IF authLog[i].at \div MsPerSec # authLog[j].at \div MsPerSec
          THEN DifferentTimestampAndSign(i, j)
          ELSE authLog[i].out = authLog[j].out

\* two calls of get_auth_params in different seconds gave different triples
C15_Witness ==
    \E i, j \in AuthParamsCalls :
        /\ authLog[i].at \div MsPerSec # authLog[j].at \div MsPerSec
        /\ DifferentTimestampAndSign(i, j)

\* C16: in the envelope a call builds, requestTime in whole seconds equals
\* timestamp.
C16_RequestTimeMatchesTimestamp ==
    Called =>
        IntToStr(call.generated["requestTime"].n \div MsPerSec)
            = call.generated["timestamp"].s

\* C17: credentials and debug flag are those given at construction, the
\* params object of a call is left as it was passed, and every posted
\* envelope carries the client's user.
C17_NothingChangedSameUser ==
    /\ CredentialsAsConstructed
    /\ Called => call.params_after = call.params
    /\ \A i \in DOMAIN Posts : Posts[i].env["user"] = PStr(ctor.user)

----------------------------------------------------------------------------
(* What the properties below read off a finished service call *)

OpIs(name) == op.name = name
OpRaised(cls) == opResult.kind = "raise" /\ opResult.exc.cls = cls
Arg(key, default) == Get(op.args, key, default)
PostsOf(r) == SelectSeq(r.events, LAMBDA e : e.ev = "post")

EmptySnOrContent == Arg("sn", PNone) = PStr("") \/ Arg("content", PNone) = PStr("")

ReceiptArgsRefused ==
    EmptySnOrContent \/ Arg("copies", PInt(1)).n \notin 1..10

LabelArgsRefused ==
    \/ EmptySnOrContent
    \/ Arg("height", PNone).n <= 0
    \/ Arg("width", PInt(30)).n <= 0
    \/ Arg("quantity", PInt(1)).n \notin 1..100

\* the call made exactly one request, of this method, and it was sent once
OneRequestOf(method) ==
    /\ Len(opRequests) = 1
    /\ opRequests[1].method = method
    /\ Len(PostsOf(opRequests[1])) = 1
    /\ PostsOf(opRequests[1])[1].url = BASE_URL \o "/" \o method

SentEnvelope == PostsOf(opRequests[1])[1].env

\* C18: print_receipt and print_label raise XpyunError and issue no request
\* on arguments they refuse (empty sn or content; copies outside 1..10;
\* height or width not positive; quantity outside 1..100); on all other
\* arguments exactly one request is issued, 'print' resp. 'printLabel', with
\* mode = 0 iff auto_print and voice = 1 iff voice_enabled.
C18_ValidatesBeforeSending ==
    /\ OpIs("print_receipt") =>
          IF ReceiptArgsRefused
          THEN OpRaised("XpyunError") /\ opRequests = <<>>
          ELSE /\ OneRequestOf("print")
               /\ SentEnvelope["mode"] \in {PInt(0), PInt(1)}
               /\ SentEnvelope["voice"] \in {PInt(0), PInt(1)}
               /\ SentEnvelope["mode"] = PInt(0) <=>
                     Arg("auto_print", PBool(TRUE)) = PBool(TRUE)
               /\ SentEnvelope["voice"] = PInt(1) <=>
                     Arg("voice_enabled", PBool(FALSE)) = PBool(TRUE)
    /\ OpIs("print_label") =>
          IF LabelArgsRefused
          THEN OpRaised("XpyunError") /\ opRequests = <<>>
          ELSE OneRequestOf("printLabel")

\* print_receipt sent a ticket for the largest number of copies, not printed
\* at once and with the voice on
C18_Witness ==
    /\ OpIs("print_receipt")
    /\ Arg("copies", PInt(1)) = PInt(10)
    /\ Arg("auto_print", PBool(TRUE)) = PBool(FALSE)
    /\ Arg("voice_enabled", PBool(FALSE)) = PBool(TRUE)
    /\ OneRequestOf("print")
    /\ SentEnvelope["mode"] = PInt(1)
    /\ SentEnvelope["voice"] = PInt(1)

BatchTasks == DOMAIN op.tasks
RequestsFor(i) == {j \in DOMAIN opRequests : opRequests[j].task = i}

\* the tasks that are valid jobs: a receipt, an order, a label order
IsValidJob(task) ==
    /\ task.kind = "dict"
    /\ {"sn", "content"} \subseteq DOMAIN task.d \/ {"sn", "order_data"} \subseteq DOMAIN task.d
    /\ task.d["sn"] # PStr("")
    /\ DOMAIN task.d \subseteq {"sn", "content", "copies", "order_data", "order_type"}

\* entry i is a success with the server's reply, or a failure with a text
WellFormedEntry(i) ==
    LET e == opResult.entries[i]
    IN  /\ e.task = op.tasks[i]
        /\ IF e.success
           THEN /\ e.data.form = "object"
                /\ \E j \in RequestsFor(i) :
                      opRequests[j].outcome = Returned(e.data)
           ELSE e.error # ""

\* C19: batch_print never raises; it returns one entry per task, in the
\* order of the tasks, entry i holding task i and either success with the
\* result or failure with the error text; a task that is a valid job is
\* sent whatever happened to the tasks before it.
C19_BatchNeverRaises ==
    OpIs("batch_print") =>
        /\ opResult.kind = "return"
        /\ Len(opResult.entries) = Len(op.tasks)
        /\ \A i \in BatchTasks : WellFormedEntry(i)
        /\ \A i \in BatchTasks : IsValidJob(op.tasks[i]) => RequestsFor(i) # {}

\* a batch whose first task failed and whose second task was sent and
\* succeeded
C19_Witness ==
    /\ OpIs("batch_print")
    /\ Len(op.tasks) >= 2
    /\ opResult.kind = "return"
    /\ ~opResult.entries[1].success
    /\ opResult.entries[2].success
    /\ RequestsFor(2) # {}

\* a label job: a dict without 'content' and without 'order_data', or the
\* label task of the usage example
IsLabelJob(task) ==
    /\ task.kind = "dict"
    /\ \/ DOMAIN task.d \cap {"content", "order_data"} = {}
       \/ task.d = ExampleLabelTask

\* C20: in a batch, a label job issues a 'printLabel' request, and its entry
\* is a success when the server accepts the request.
C20_BatchPrintsLabels ==
    OpIs("batch_print") =>
        \A i \in BatchTasks :
            IsLabelJob(op.tasks[i]) =>
                \E j \in RequestsFor(i) :
                    /\ opRequests[j].method = "printLabel"
                    /\ opRequests[j].outcome.kind = "return" =>
                          opResult.entries[i].success

\* the wire integer the claim gives a voice-type name, in any letter case
\* (-1: the name is no voice type)
WireVoiceType(name) ==
    CASE name \in {"ENGLISH_MALE", "english_male", "English_Male"} -> 5
      [] name = "mandarin_female" -> 0
      [] OTHER -> -1

\* C21: set_voice_type sends the wire integer of a voice-type name, whatever
\* its letter case, and voice = 1 iff voice_enabled (else 0); a string that is
\* no voice type, or an empty sn, raises XpyunError with no request; an
\* integer voice_type is sent unchanged.
C21_VoiceTypeMapped ==
    OpIs("set_voice_type") =>
        LET given == op.args["voice_type"]
            refused == \/ op.args["sn"] = PStr("")
                       \/ given.k = "str" /\ WireVoiceType(given.s) = -1
        IN  IF refused
            THEN OpRaised("XpyunError") /\ opRequests = <<>>
            ELSE /\ OneRequestOf("setVoiceType")
                 /\ SentEnvelope["sn"] = op.args["sn"]
                 /\ SentEnvelope["voiceType"] =
                       IF given.k = "str" THEN PInt(WireVoiceType(given.s)) ELSE given
                 /\ SentEnvelope["voice"] =
                       IF op.args["voice_enabled"] = PBool(TRUE) THEN PInt(1) ELSE PInt(0)

\* a lower-case name was sent as its wire integer, with the voice off
C21_Witness ==
    /\ OpIs("set_voice_type")
    /\ op.args["voice_type"] = PStr("english_male")
    /\ op.args["voice_enabled"] = PBool(FALSE)
    /\ OneRequestOf("setVoiceType")
    /\ SentEnvelope["voiceType"] = PInt(5)
    /\ SentEnvelope["voice"] = PInt(0)

RequestsOf(method) == {j \in DOMAIN opRequests : opRequests[j].method = method}
Succeeded(j) == opRequests[j].outcome.kind = "return"

\* the print request of the operation was made and the server accepted it
PrintSucceeded == opRequests # <<>> /\ opRequests[1].method = "print" /\ Succeeded(1)

\* the caller asked for the amount to be announced
VoiceWanted == op.args["voice_enabled"] = PBool(TRUE) /\ op.args["amount"] # PNone

\* C22: in print_and_voice the print request precedes any voice request; when
\* printing fails the error propagates and no voice request is made; a voice
\* request is made only if printing succeeded, voice_enabled is true and
\* amount is not None, and is made then whenever pay_type names a pay type;
\* whatever happens to the voice step, the print result is returned.
C22_PrintThenVoice ==
    OpIs("print_and_voice") =>
        /\ RequestsOf("print") \subseteq {1}
        /\ RequestsOf("playVoice") \subseteq {2}
        /\ Len(opRequests) <= 2
        /\ IF PrintSucceeded
           THEN /\ opResult.kind = "return"
                /\ opResult.result = opRequests[1].outcome.result
                /\ RequestsOf("playVoice") # {} => VoiceWanted
                /\ VoiceWanted /\ op.args["pay_type"] \in {PStr("CASH"), PStr("cash")}
                      => RequestsOf("playVoice") = {2}
           ELSE /\ opResult.kind = "raise"
                /\ IsInstance(opResult.exc, "XpyunError")
                /\ RequestsOf("playVoice") = {}

\* printing succeeded, the voice request failed, and the print result came back
C22_Witness ==
    /\ OpIs("print_and_voice")
    /\ PrintSucceeded
    /\ RequestsOf("playVoice") = {2}
    /\ ~Succeeded(2)
    /\ opResult.kind = "return"
    /\ opResult.result = opRequests[1].outcome.result

NewOrderRequests ==
    {j \in DOMAIN opRequests : opRequests[j].params["voiceType"] = PStr("NEW_ORDER")}
AmountRequests ==
    {j \in DOMAIN opRequests : opRequests[j].params["voiceType"] = PStr("AMOUNT_CASH")}

\* the order carries an amount, to be announced with a pay type the SDK knows
AmountPresent ==
    /\ op.args["order_data"].k = "map"
    /\ Get(op.args["order_data"].d, "total_amount", PNone) # PNone
    /\ Get(op.args["order_data"].d, "pay_type", PStr("CASH")) \in {PStr("CASH"), PStr("cash")}

\* what voice_auto_order does when it does not raise
AutoOrderSequence ==
    /\ opResult.kind = "return"
    /\ Len(opRequests) <= 2
    /\ RequestsOf("playVoice") = DOMAIN opRequests
    /\ \A a \in AmountRequests, o \in NewOrderRequests : a < o
    /\ op.args["sn"] # PStr("") =>
          /\ Cardinality(NewOrderRequests) = 1
          /\ AmountPresent => Cardinality(AmountRequests) = 1
    /\ opResult.result = NoBody <=> ~(\E o \in NewOrderRequests : Succeeded(o))

\* C23: voice_auto_order never raises, for any order_data; the amount voice
\* (when the order carries an amount) is requested before the NEW_ORDER
\* voice, the NEW_ORDER voice is requested whether or not the amount voice
\* failed, at most two requests are made, and the result is None exactly
\* when the NEW_ORDER request failed.
C23_AutoOrderNeverRaises ==
    OpIs("voice_auto_order") => AutoOrderSequence

\* C23, amended: the same for every order_data that is a dict.
C23_AutoOrderNeverRaisesOnDict ==
    OpIs("voice_auto_order") /\ op.args["order_data"].k = "map" => AutoOrderSequence

\* the amount voice failed, the NEW_ORDER voice was still requested and
\* succeeded
C23_Witness ==
    /\ OpIs("voice_auto_order")
    /\ AmountRequests = {1}
    /\ ~Succeeded(1)
    /\ NewOrderRequests = {2}
    /\ Succeeded(2)
    /\ opResult.kind = "return"
    /\ opResult.result # NoBody

\* the status query was made and the server's answer was returned to the
\* manager
QuerySucceeded == opRequests # <<>> /\ Succeeded(1)

\* the data of the answer to the status query
AnsweredData == Get(opRequests[1].outcome.result.obj, "data", PNone)

\* the record the claim gives for a failed query
UnknownRecord ==
    [k \in {"sn", "status", "is_online", "queue_status"} |->
        CASE k = "sn" -> op.args["sn"]
          [] k = "is_online" -> PBool(FALSE)
          [] OTHER -> PStr("unknown")]

\* C24: PrinterManager.get_printer_info never propagates an XpyunError; when
\* the status query fails (empty sn, API error, network error, parse error)
\* it returns {sn, status 'unknown', is_online False, queue_status
\* 'unknown'}; when the query succeeds, is_online is true only if the
\* response data reports connected.
C24_InfoNeverRaisesSdkError ==
    OpIs("manager_get_printer_info") =>
        /\ ~(opResult.kind = "raise" /\ IsInstance(opResult.exc, "XpyunError"))
        /\ ~QuerySucceeded =>
              opResult.kind = "return" /\ opResult.result = ObjectBody(UnknownRecord)
        /\ QuerySucceeded /\ opResult.kind = "return"
              /\ Truth(opResult.result.obj["is_online"]) =>
              AnsweredData.k = "map" /\ Truth(Get(AnsweredData.d, "connected", PNone))

\* the status query failed on the network and the unknown record came back
C24_Witness ==
    /\ OpIs("manager_get_printer_info")
    /\ opRequests # <<>>
    /\ opRequests[1].outcome.kind = "raise"
    /\ opRequests[1].outcome.exc.cls = "XpyunNetworkError"
    /\ opResult.kind = "return"
    /\ opResult.result = ObjectBody(UnknownRecord)

\* the date range request j asks for
RangeOf(j) == <<opRequests[j].params["dateFrom"], opRequests[j].params["dateTo"]>>

\* C25: QueryService.get_printer_info issues the status query, then the
\* statistics query for today, then the statistics query for yesterday, whose
\* date range is the day before today and differs from today's range. (The
\* clock of the model stays within 1970-01-01.)
C25_YesterdayIsTheDayBefore ==
    OpIs("query_get_printer_info") /\ opResult.kind = "return" =>
        /\ Len(opRequests) = 3
        /\ opRequests[1].method = "queryPrinterStatus"
        /\ opRequests[2].method = "queryOrderStatis"
        /\ opRequests[3].method = "queryOrderStatis"
        /\ RangeOf(2) = <<PStr("19700101"), PStr("19700101")>>
        /\ RangeOf(3) = <<PStr("19691231"), PStr("19691231")>>
        /\ RangeOf(3) # RangeOf(2)

\* C26: a call returns only when the response is a JSON object whose code is
\* present and is the integer 0; a JSON object without code raises
\* XpyunAPIError with code None, and a JSON value that is no object raises the
\* generic XpyunError.
C26_SuccessOnlyOnIntegerZero ==
    /\ outcome.kind = "return" =>
           /\ GotObject
           /\ "code" \in DOMAIN ResponseObj
           /\ ResponseObj["code"] = PInt(0)
    /\ (GotObject /\ "code" \notin DOMAIN ResponseObj) =>
           RaisedClass("XpyunAPIError") /\ outcome.exc.code = PNone
    /\ (GotResponse /\ call.transport.body.form = "array") => RaisedClass("XpyunError")

====
